---- MODULE Spec2Model ----
(***************************************************************************)
(* Model of the accident-statistics downloader (1. Project/download.py):   *)
(* the per-cell repair functions, the region table builder, the per-region *)
(* cache and the multi-region aggregator of class DataDownloader.          *)
(*                                                                         *)
(* Text is modelled as a sequence of one-character strings so that the     *)
(* repair functions can be computed character by character.  A table is    *)
(* the pair (names, cols) the code returns; Python index j is sequence     *)
(* index j+1.                                                              *)
(***************************************************************************)
EXTENDS Integers, Sequences, FiniteSets, TLC

VARIABLES regions_cache, files, zips, web, now, last, reads, builds, failed,
          ncalls, raw, out, num, rounded

vars == <<regions_cache, files, zips, web, now, last, reads, builds, failed,
          ncalls, raw, out, num, rounded>>

mainVars == <<regions_cache, files, zips, web, now, last, reads, builds,
              failed, ncalls>>

cellVars == <<raw, out>>

roundVars == <<num, rounded>>

(***************************************************************************)
(* Bounds of the model.                                                    *)
(***************************************************************************)
MaxCalls == 2      \* calls made on one DataDownloader instance
MaxCell == 3       \* longest raw cell given to a repair function
MaxRound == 3000   \* largest magnitude of the arguments of round1000

(***************************************************************************)
(* Program constants.                                                      *)
(***************************************************************************)
FIRST_YEAR == 2016

columns_names_dtypes ==
  << <<"Region", "U3">>, <<"ID", "=U12">>,
     <<"Communication type", "i1">>, <<"Communication number", "i4">>,
     <<"YYYY-MM-DD", "datetime64[D]">>, <<"Weekday", "i1">>,
     <<"Time", "=U5">>, <<"Accident type", "i1">>,
     <<"Moving vehicles crash type", "i1">>, <<"Fixed obstacle type", "i1">>,
     <<"Accident specific", "i1">>, <<"Accident culprit", "i1">>,
     <<"Culprit alcohol level", "i1">>, <<"Accident main causes", "i2">>,
     <<"Persons killed", "i1">>, <<"Persons seriously  injured", "i1">>,
     <<"Persons slightly injured", "i1">>, <<"Total material damage", "i4">>,
     <<"Road surface type", "i1">>, <<"Road surface condition", "i1">>,
     <<"Comunication condition", "i1">>, <<"Wind condition", "i1">>,
     <<"Visibility", "i1">>, <<"Visional condition", "i1">>,
     <<"Communication division", "i1">>, <<"Accident location", "i1">>,
     <<"Accident driving management", "i1">>,
     <<"Driving priotities adjustment", "i1">>,
     <<"Accident specific objects", "i1">>, <<"Directions conditions", "i1">>,
     <<"Number of vehicles", "i1">>, <<"Accident city", "i1">>,
     <<"Cross type", "i1">>, <<"Vehicle type", "i1">>,
     <<"Vehicle mark", "i1">>, <<"Manufacture year", "i1">>,
     <<"Vehicle characteristic", "i1">>, <<"Skid", "i1">>,
     <<"Vehicle after accident", "i1">>, <<"Materials transported", "i1">>,
     <<"Method of persons reliasing", "i1">>, <<"Direction of driving", "i2">>,
     <<"Vehicle damage", "i2">>, <<"Driver category", "i1">>,
     <<"Driver state", "i1">>, <<"External influence", "i1">>,
     <<"a", "f">>, <<"b", "f">>, <<"GPS:X", "f">>, <<"GPS:Y", "f">>,
     <<"f", "f">>, <<"g", "f">>,
     <<"h", "=U22">>, <<"i", "=U22">>, <<"j", "=U22">>,
     <<"k", "=U22">>, <<"l", "=U22">>, <<"n", "=U22">>,
     <<"o", "=U22">>, <<"p", "=U22">>, <<"q", "=U22">>,
     <<"r", "=U22">>, <<"s", "=U22">>, <<"t", "=U22">>,
     <<"Accident area", "i1">> >>

\* number of schema columns (len(columns_names_dtypes))
NumColumns == Len(columns_names_dtypes)

\* columns_names_dtypes[i][0] and columns_names_dtypes[i][1], 0 <= i <= 64
ColName(i) == columns_names_dtypes[i + 1][1]

ColDtype(i) == columns_names_dtypes[i + 1][2]

\* the keys in another order (the first two exchanged)
RegionOrder_swapped ==
  <<"STC", "PHA", "JHC", "PLK", "ULK", "HKK", "JHM",
    "MSK", "OLK", "ZLK", "VYS", "PAK", "LBK", "KVK">>

\* the keys of regions_files in declaration (= iteration) order
RegionOrder ==
  <<"PHA", "STC", "JHC", "PLK", "ULK", "HKK", "JHM",
    "MSK", "OLK", "ZLK", "VYS", "PAK", "LBK", "KVK">>

Regions == {RegionOrder[k] : k \in 1..Len(RegionOrder)}

\* regions_files: region code -> name of the region's csv member
regions_files ==
  [r \in Regions |->
     CASE r = "PHA" -> "00.csv" [] r = "STC" -> "01.csv"
       [] r = "JHC" -> "02.csv" [] r = "PLK" -> "03.csv"
       [] r = "ULK" -> "04.csv" [] r = "HKK" -> "05.csv"
       [] r = "JHM" -> "06.csv" [] r = "MSK" -> "07.csv"
       [] r = "OLK" -> "14.csv" [] r = "ZLK" -> "15.csv"
       [] r = "VYS" -> "16.csv" [] r = "PAK" -> "17.csv"
       [] r = "LBK" -> "18.csv" [] r = "KVK" -> "19.csv"]

(***************************************************************************)
(* Text helpers.                                                           *)
(***************************************************************************)
Digits == {"0", "1", "2", "3", "4", "5", "6", "7", "8", "9"}

Whitespace == {" "}

DigitVal(c) ==
  CASE c = "0" -> 0 [] c = "1" -> 1 [] c = "2" -> 2 [] c = "3" -> 3
    [] c = "4" -> 4 [] c = "5" -> 5 [] c = "6" -> 6 [] c = "7" -> 7
    [] c = "8" -> 8 [] c = "9" -> 9

\* str.replace(old, new) for a one-character old and a new of length <= 1
RECURSIVE Replace(_, _, _)
Replace(s, old, new) ==
  IF s = <<>> THEN <<>>
  ELSE (IF Head(s) = old THEN new ELSE <<Head(s)>>)
       \o Replace(Tail(s), old, new)

\* str.strip() of whitespace, as int() and float() apply it to their argument
RECURSIVE LStrip(_, _)
LStrip(s, cs) ==
  IF s # <<>> /\ Head(s) \in cs THEN LStrip(Tail(s), cs) ELSE s

RECURSIVE RStrip(_, _)
RStrip(s, cs) ==
  IF s # <<>> /\ s[Len(s)] \in cs
  THEN RStrip(SubSeq(s, 1, Len(s) - 1), cs) ELSE s

Strip(s, cs) == RStrip(LStrip(s, cs), cs)

\* Python slice element[a:b] (0-based, clipped to the text)
Slice(s, a, b) ==
  LET hi == IF b < Len(s) THEN b ELSE Len(s)
  IN IF a >= hi THEN <<>> ELSE SubSeq(s, a + 1, hi)

\* a digit group of a Python numeric literal: digits, single underscores
\* allowed between digits only
DigitGroup(s) ==
  /\ s # <<>>
  /\ \A k \in 1..Len(s) : s[k] \in Digits \cup {"_"}
  /\ s[1] \in Digits
  /\ s[Len(s)] \in Digits
  /\ \A k \in 1..(Len(s) - 1) : ~(s[k] = "_" /\ s[k + 1] = "_")

Unsigned(s) == IF s # <<>> /\ Head(s) \in {"+", "-"} THEN Tail(s) ELSE s

\* int(s) does not raise: optional blanks, optional sign, a digit group
IntParses(s) == DigitGroup(Unsigned(Strip(s, Whitespace)))

\* value of int(s) when IntParses(s)
RECURSIVE DigitsValue(_, _)
DigitsValue(s, acc) ==
  IF s = <<>> THEN acc
  ELSE IF Head(s) = "_" THEN DigitsValue(Tail(s), acc)
  ELSE DigitsValue(Tail(s), 10 * acc + DigitVal(Head(s)))

IntValue(s) ==
  LET t == Strip(s, Whitespace)
  IN IF t # <<>> /\ Head(t) = "-" THEN 0 - DigitsValue(Tail(t), 0)
     ELSE DigitsValue(Unsigned(t), 0)

\* position of the first element of s that is in cs, or 0
RECURSIVE FirstPos(_, _, _)
FirstPos(s, cs, k) ==
  IF k > Len(s) THEN 0 ELSE IF s[k] \in cs THEN k ELSE FirstPos(s, cs, k + 1)

LowerChar(c) ==
  CASE c = "I" -> "i" [] c = "N" -> "n" [] c = "F" -> "f" [] c = "A" -> "a"
    [] c = "T" -> "t" [] c = "Y" -> "y" [] OTHER -> c

Lower(s) == [k \in 1..Len(s) |-> LowerChar(s[k])]

\* digits with an optional fraction: 12, 12., .5, 1.5
Mantissa(b) ==
  LET d == FirstPos(b, {"."}, 1)
      ip == IF d = 0 THEN b ELSE SubSeq(b, 1, d - 1)
      fp == IF d = 0 THEN <<>> ELSE SubSeq(b, d + 1, Len(b))
  IN IF d = 0 THEN DigitGroup(b)
     ELSE /\ ip # <<>> \/ fp # <<>>
          /\ ip = <<>> \/ DigitGroup(ip)
          /\ fp = <<>> \/ DigitGroup(fp)

\* float(s) does not raise: optional blanks, optional sign, then inf,
\* infinity or nan, or a mantissa with an optional exponent
FloatParses(s) ==
  LET b == Unsigned(Strip(s, Whitespace))
      e == FirstPos(b, {"e", "E"}, 1)
  IN \/ Lower(b) \in {<<"i","n","f">>, <<"n","a","n">>,
                      <<"i","n","f","i","n","i","t","y">>}
     \/ /\ e = 0
        /\ Mantissa(b)
     \/ /\ e > 0
        /\ Mantissa(SubSeq(b, 1, e - 1))
        /\ DigitGroup(Unsigned(SubSeq(b, e + 1, Len(b))))

\* the sentinel text '-1'
Minus1 == <<"-", "1">>

(***************************************************************************)
(* The per-cell repair functions (converters of numpy.loadtxt).            *)
(***************************************************************************)
\* parse_i stripping the quotes at the two ends only
parse_i_strip(element) ==
  LET e == Strip(element, {"\""})
  IN IF IntParses(e) THEN e ELSE Minus1

parse_i(element) ==
  LET e == Replace(element, "\"", <<>>)
  IN IF IntParses(e) THEN e ELSE Minus1

\* parse_f without the replacement of the decimal comma
parse_f_nocomma(element) ==
  LET e == Replace(element, "\"", <<>>)
  IN IF FloatParses(e) THEN e ELSE Minus1

parse_f(element) ==
  LET e == Replace(Replace(element, "\"", <<>>), ",", <<".">>)
  IN IF FloatParses(e) THEN e ELSE Minus1

parse_u5(element) ==
  LET hh == Slice(element, 1, 3)
      mm == Slice(element, 3, 5)
  IN IF ~IntParses(hh) THEN <<>>
     ELSE IF IntValue(hh) > 24 THEN <<>>
     ELSE IF ~IntParses(mm) THEN <<>>
     ELSE IF IntValue(mm) > 59 THEN hh
     ELSE hh \o <<":">> \o mm

\* parse_u_m removing the first double quote only
parse_u_m_first(element) ==
  LET k == FirstPos(element, {"\""}, 1)
  IN IF k = 0 THEN element
     ELSE SubSeq(element, 1, k - 1) \o SubSeq(element, k + 1, Len(element))

parse_u_m(element) == Replace(element, "\"", <<>>)

(***************************************************************************)
(* Final type conversion of a repaired cell (dtype of numpy.loadtxt).      *)
(***************************************************************************)
RECURSIVE Join(_)
Join(s) == IF s = <<>> THEN "" ELSE Head(s) \o Join(Tail(s))

\* width of a fixed-length unicode dtype
UWidth(dtype) ==
  CASE dtype = "=U5" -> 5 [] dtype = "=U12" -> 12 [] dtype = "=U22" -> 22
    [] dtype = "U3" -> 3

IsIntDtype(dtype) == dtype \in {"i1", "i2", "i4"}

IsDateDtype(dtype) == dtype = "datetime64[D]"

AllDigits(s) == \A k \in 1..Len(s) : s[k] \in Digits

\* number of days of month m of year y
DaysIn(m, y) ==
  IF m = 2
  THEN (IF y % 4 = 0 /\ (y % 100 # 0 \/ y % 400 = 0) THEN 29 ELSE 28)
  ELSE IF m \in {4, 6, 9, 11} THEN 30 ELSE 31

\* texts numpy accepts as datetime64[D]: empty or NaT (not a time), or the
\* ISO 8601 dates YYYY, YYYY-MM and YYYY-MM-DD of the calendar
DateParses(s) ==
  \/ s = <<>>
  \/ Lower(s) = <<"n", "a", "t">>
  \/ Len(s) = 4 /\ AllDigits(s)
  \/ /\ Len(s) \in {7, 10}
     /\ s[5] = "-"
     /\ AllDigits(SubSeq(s, 1, 4))
     /\ AllDigits(SubSeq(s, 6, 7))
     /\ IntValue(SubSeq(s, 6, 7)) \in 1..12
     /\ Len(s) = 10 =>
          /\ s[8] = "-"
          /\ AllDigits(SubSeq(s, 9, 10))
          /\ IntValue(SubSeq(s, 9, 10))
               \in 1..DaysIn(IntValue(SubSeq(s, 6, 7)),
                             IntValue(SubSeq(s, 1, 4)))

\* the conversion without the parsing of dates
ConvRaises_nodate(dtype, text) ==
  CASE IsIntDtype(dtype) -> ~IntParses(text)
    [] dtype = "f" -> ~FloatParses(text)
    [] OTHER -> FALSE

\* the conversion of text to dtype raises
ConvRaises(dtype, text) ==
  CASE IsIntDtype(dtype) -> ~IntParses(text)
    [] dtype = "f" -> ~FloatParses(text)
    [] IsDateDtype(dtype) -> ~DateParses(text)
    [] OTHER -> FALSE

\* the decimal digits of the magnitude of an integer text, without sign,
\* underscores and leading zeros
Magnitude(text) ==
  LStrip(SelectSeq(Unsigned(Strip(text, Whitespace)), LAMBDA c : c # "_"),
         {"0"})

IsNegative(text) ==
  Strip(text, Whitespace) # <<>> /\ Head(Strip(text, Whitespace)) = "-"

\* a <= b for two digit texts without leading zeros
RECURSIVE DigitsLeq(_, _)
DigitsLeq(a, b) ==
  IF Len(a) # Len(b) THEN Len(a) < Len(b)
  ELSE IF a = <<>> THEN TRUE
  ELSE IF Head(a) # Head(b) THEN DigitVal(Head(a)) < DigitVal(Head(b))
  ELSE DigitsLeq(Tail(a), Tail(b))

\* the largest magnitude of a signed integer of dtype: 2^(8w-1) - 1, and
\* one more for a negative value
MaxMagnitude(dtype, negative) ==
  CASE dtype = "i1" ->
         IF negative THEN <<"1","2","8">> ELSE <<"1","2","7">>
    [] dtype = "i2" ->
         IF negative THEN <<"3","2","7","6","8">> ELSE <<"3","2","7","6","7">>
    [] dtype = "i4" ->
         IF negative THEN <<"2","1","4","7","4","8","3","6","4","8">>
         ELSE <<"2","1","4","7","4","8","3","6","4","7">>

\* the integer text lies in the signed range of dtype
InRange(dtype, text) ==
  DigitsLeq(Magnitude(text), MaxMagnitude(dtype, IsNegative(text)))

\* the text converts to an integer that the dtype cannot hold
ConvOverflows(dtype, text) ==
  IsIntDtype(dtype) /\ IntParses(text) /\ ~InRange(dtype, text)

\* what storing text into a field of dtype can do: "ok", "raise", or for an
\* integer out of the range of the field "raise" (OverflowError) or "wrap"
\* (silent truncation), depending on the numpy release
ConvOutcomes(dtype, text) ==
  IF ConvRaises(dtype, text) THEN {"raise"}
  ELSE IF ConvOverflows(dtype, text) THEN {"raise", "wrap"}
  ELSE {"ok"}

\* the array element stored for text in a column of dtype
ConvValue(dtype, text) ==
  CASE IsIntDtype(dtype) -> IntValue(text)
    [] dtype = "f" -> Join(text)
    [] IsDateDtype(dtype) -> Join(text)
    [] OTHER -> Join(Slice(text, 0, UWidth(dtype)))

\* convert[i] of parse_region_data: the converter of source column i,
\* chosen by the dtype of schema column i+1
Converter(i, x) ==
  LET dtype == ColDtype(i + 1)
  IN IF IsIntDtype(dtype)
     THEN (LET v == parse_i(x) IN IF v = <<>> THEN Minus1 ELSE v)
     ELSE IF dtype = "f"
     THEN (LET v == parse_f(x) IN IF v = <<>> THEN Minus1 ELSE v)
     ELSE IF dtype = "=U5" THEN parse_u5(x)
     ELSE parse_u_m(x)

(***************************************************************************)
(* Archives.  A csv row is [z, i, kind]: the archive and position it comes *)
(* from and the kind of content of its cells.                              *)
(***************************************************************************)
RowKinds == {"ok", "dirty", "baddate"}

DigitChar(n) == <<"0", "1", "2", "3", "4", "5", "6", "7", "8", "9">>[n + 1]

\* the text of source column c (0..63) of a csv row
RawCell(row, c) ==
  LET dtype == ColDtype(c + 1)
  IN IF c = 0 THEN <<"\"", row.z, DigitChar(row.i), "\"">>
     ELSE IF IsIntDtype(dtype)
     THEN (IF row.kind = "dirty" THEN <<"\"", "\"">>
           ELSE <<DigitChar((row.i + c) % 10)>>)
     ELSE IF dtype = "f"
     THEN (IF row.kind = "dirty" THEN <<"a">> ELSE <<"1", ",", "5">>)
     ELSE IF dtype = "=U5"
     THEN (IF row.kind = "dirty" THEN <<"\"", "2", "5", "3", "0", "\"">>
           ELSE <<"\"", "0", "8", "4", "5", "\"">>)
     ELSE IF IsDateDtype(dtype)
     THEN (IF row.kind = "baddate" THEN <<"x">>
           ELSE <<"2", "0", "1", "6", "-", "0", "1", "-", "0", DigitChar(row.i)>>)
     ELSE <<"\"", "t", "\"">>

Rows(z, kinds) == [k \in 1..Len(kinds) |-> [z |-> z, i |-> k, kind |-> kinds[k]]]

\* the archives that exist (on the server or in the folder)
ZipPool == {"A", "B", "C"}

\* file name of an archive
ZipName(z) ==
  CASE z = "A" -> <<"d","a","t","a","g","i","s","2","0","1","6",".","z","i","p">>
    [] z = "B" -> <<"d","a","t","a","g","i","s","-","r","o","k","-",
                    "2","0","1","7",".","z","i","p">>
    [] z = "C" -> <<"d","a","t","a","g","i","s","-","0","1","-",
                    "2","0","1","7",".","z","i","p">>

\* zf.namelist() with the rows of each member: archive A holds a file for
\* every region, B and C for some; one member of B is empty, one of C has a
\* malformed date
ZipMembers(z) ==
  CASE z = "A" ->
         [f \in {regions_files[r] : r \in Regions} |->
            IF f = "07.csv" THEN Rows("A", <<"ok", "dirty", "ok">>)
            ELSE Rows("A", <<"ok", "dirty">>)]
    [] z = "B" ->
         [f \in {"01.csv", "07.csv", "17.csv"} |->
            IF f = "07.csv" THEN <<>>
            ELSE IF f = "01.csv" THEN Rows("B", <<"dirty", "ok", "ok">>)
            ELSE Rows("B", <<"ok", "ok">>)]
    [] z = "C" ->
         [f \in {"00.csv", "07.csv", "19.csv"} |->
            IF f = "07.csv" THEN Rows("C", <<"ok", "baddate">>)
            ELSE IF f = "19.csv" THEN Rows("C", <<"ok">>)
            ELSE Rows("C", <<"ok", "ok">>)]

(***************************************************************************)
(* Tables.                                                                 *)
(***************************************************************************)
\* the value None of an unfilled memo entry / an absent output
None == [names |-> <<>>, cols |-> <<>>]

\* no cache file for the region in the folder
NoFile == <<>>

\* the list of the 65 column names returned with every table
Names == [k \in 1..NumColumns |-> ColName(k - 1)]

\* number of rows of a table: len of its first column
RowCount(t) == Len(t.cols[1])

\* numpy.loadtxt of one csv member raises: a cell does not convert to the
\* dtype of its column
MemberRaises(rows) ==
  \E k \in 1..Len(rows), c \in 0..(NumColumns - 2) :
    ConvRaises(ColDtype(c + 1), Converter(c, RawCell(rows[k], c)))

\* a member of exactly one row: the structured array is squeezed to zero
\* dimensions, and neither len() nor numpy.concatenate accepts its
\* zero-dimensional field arrays
MemberScalar(rows) == Len(rows) = 1

\* LoadTxt with the arrays of source columns 1 and 2 exchanged
LoadTxt_swapped(rows) ==
  [c1 \in 1..(NumColumns - 1) |->
     [k \in 1..Len(rows) |->
        LET c == IF c1 = 2 THEN 3 ELSE IF c1 = 3 THEN 2 ELSE c1
        IN ConvValue(ColDtype(c), Converter(c - 1, RawCell(rows[k], c - 1)))]]

\* numpy.loadtxt(..., unpack=True): one array per source column
LoadTxt(rows) ==
  [c1 \in 1..(NumColumns - 1) |->
     [k \in 1..Len(rows) |->
        ConvValue(ColDtype(c1), Converter(c1 - 1, RawCell(rows[k], c1 - 1)))]]

(***************************************************************************)
(* The world a call runs in: w.memo is self.regions_cache, w.files the     *)
(* cache files of the folder, w.zips the archives of the folder in glob    *)
(* order, w.log the calls and I/O operations performed so far, w.first the *)
(* region whose memo entry the variable output of get_list refers to.      *)
(***************************************************************************)
IOKinds == {"stat", "read", "write", "glob", "open", "rm", "index", "get", "save"}

Log(w, e) == [w EXCEPT !.log = Append(@, e)]

\* F applied to the value of v, v being evaluated once
Bind(v, F(_)) == CHOOSE r \in {F(x) : x \in {v}} : TRUE

Ok(w) == [w |-> w, err |-> "", named |-> <<>>, res |-> None]

\* an exception of class e whose message names the codes in named
RaiseNamed(w, e, named) == [w |-> w, err |-> e, named |-> named, res |-> None]

Raise(w, e) == RaiseNamed(w, e, <<>>)

\* numpy.loadtxt of every member of every archive, computed once
Loaded ==
  [z \in ZipPool |->
     [f \in DOMAIN ZipMembers(z) |->
        IF MemberRaises(ZipMembers(z)[f])
        THEN [raises |-> TRUE, scalar |-> FALSE, df |-> <<>>]
        ELSE [raises |-> FALSE, scalar |-> MemberScalar(ZipMembers(z)[f]),
              df |-> LoadTxt(ZipMembers(z)[f])]]]

RECURSIVE NatText(_)
NatText(n) ==
  IF n < 10 THEN <<DigitChar(n)>> ELSE NatText(n \div 10) \o <<DigitChar(n % 10)>>

\* str(n) of an integer
IntText(n) == IF n < 0 THEN <<"-">> \o NatText(0 - n) ELSE NatText(n)

\* one regular-expression item: a literal character or "." (any character)
Dot == "ANY"

Lit(s) == s

\* the pattern matches text at position k
MatchAt(text, k, pat) ==
  /\ k + Len(pat) - 1 <= Len(text)
  /\ \A p \in 1..Len(pat) : pat[p] = Dot \/ pat[p] = text[k + p - 1]

\* pattern.search(text)
Search(text, pat) == \E k \in 1..Len(text) : MatchAt(text, k, pat)

\* (datagis-rok-.{5}zip)|(datagis.{5}zip)|(<m>-<y>\.zip)
PatternMatches(href, m, y) ==
  \/ Search(href, Lit(<<"d","a","t","a","g","i","s","-","r","o","k","-">>)
                  \o <<Dot, Dot, Dot, Dot, Dot>> \o Lit(<<"z","i","p">>))
  \/ Search(href, Lit(<<"d","a","t","a","g","i","s">>)
                  \o <<Dot, Dot, Dot, Dot, Dot>> \o Lit(<<"z","i","p">>))
  \/ Search(href, IntText(m) \o <<"-">> \o IntText(y) \o <<".","z","i","p">>)

\* find_all("a", href=<string>): the links whose href IS the string
\* '(<m>-<y>\.zip)', parentheses and backslash included
TestSoup(links, m, y) ==
  {k \in 1..Len(links) :
     ZipName(links[k]) = <<"(">> \o IntText(m) \o <<"-">> \o IntText(y)
                         \o <<"\\", ".", "z", "i", "p", ")">>}

RECURSIVE SelectLinks(_, _, _)
SelectLinks(links, m, y) ==
  IF links = <<>> THEN <<>>
  ELSE (IF PatternMatches(ZipName(Head(links)), m, y)
        THEN <<Head(links)>> ELSE <<>>) \o SelectLinks(Tail(links), m, y)

\* the clean-up removing the cache files along with the archives
RemoveAll_folder(w, zs) ==
  [w EXCEPT !.zips = <<>>, !.files = [r \in Regions |-> NoFile],
            !.log = @ \o [k \in 1..Len(zs) |-> <<"rm", zs[k]>>]]

RECURSIVE RemoveAll(_, _)
RemoveAll(w, zs) ==
  IF zs = <<>> THEN [w EXCEPT !.zips = <<>>]
  ELSE RemoveAll(Log(w, <<"rm", Head(zs)>>), Tail(zs))

Without(seq, x) == SelectSeq(seq, LAMBDA e : e # x)

\* the download loop over the selected links
RECURSIVE DownloadLinks(_, _, _)
DownloadLinks(w, soup, wb) ==
  IF soup = <<>> THEN Ok(w)
  ELSE IF wb.status[Head(soup)] = "net_err"
  THEN Raise(Log(w, <<"get", Head(soup)>>), "ConnectionError")
  ELSE IF wb.status[Head(soup)] = "ok"
  THEN Bind([Log(Log(w, <<"get", Head(soup)>>), <<"save", Head(soup)>>)
               EXCEPT !.zips = Append(Without(@, Head(soup)), Head(soup))],
            LAMBDA w1 : DownloadLinks(w1, Tail(soup), wb))
  ELSE Bind(Log(w, <<"get", Head(soup)>>),
            LAMBDA w1 : DownloadLinks(w1, Tail(soup), wb))

\* the month of the monthly archive looked for
ArchiveMonth(links, nw) ==
  IF TestSoup(links, nw.month - 1, nw.year) = {}
  THEN nw.month - 2 ELSE nw.month - 1

\* download_data requesting the index page before the clean-up
download_data_indexfirst(w, wb, nw) ==
  Bind(Log(w, <<"index">>),
       LAMBDA w2 :
         IF wb.index = "net_err" THEN Raise(w2, "ConnectionError")
         ELSE IF wb.index # "ok" THEN Ok(w2)
         ELSE Bind(SelectLinks(wb.links, ArchiveMonth(wb.links, nw), nw.year),
                   LAMBDA soup :
                     DownloadLinks(IF w2.zips # <<>>
                                      \/ \E r \in Regions : w2.files[r] # NoFile
                                   THEN RemoveAll(w2, w2.zips) ELSE w2,
                                   soup, wb)))

\* download_data without the clean-up of the folder
download_data_noclean(w, wb, nw) ==
  Bind(Log(w, <<"index">>),
       LAMBDA w2 :
         IF wb.index = "net_err" THEN Raise(w2, "ConnectionError")
         ELSE IF wb.index # "ok" THEN Ok(w2)
         ELSE Bind(SelectLinks(wb.links, ArchiveMonth(wb.links, nw), nw.year),
                   LAMBDA soup : DownloadLinks(w2, soup, wb)))

download_data(w, wb, nw) ==
  Bind(Log(IF w.zips # <<>> \/ \E r \in Regions : w.files[r] # NoFile
           THEN RemoveAll(w, w.zips) ELSE w,
           <<"index">>),
       LAMBDA w2 :
         IF wb.index = "net_err" THEN Raise(w2, "ConnectionError")
         ELSE IF wb.index # "ok" THEN Ok(w2)
         ELSE Bind(SelectLinks(wb.links, ArchiveMonth(wb.links, nw), nw.year),
                   LAMBDA soup : DownloadLinks(w2, soup, wb)))

\* every member replaces the arrays read so far
Accumulate_overwrite(cd, df) == df

\* the rows of a later member put before the rows read so far
Accumulate_prepend(cd, df) ==
  IF cd = <<>> THEN df ELSE [j \in 1..Len(cd) |-> df[j] \o cd[j]]

\* columns_data = df for the first member, else column-wise concatenation
Accumulate(cd, df) ==
  IF cd = <<>> THEN df ELSE [j \in 1..Len(cd) |-> cd[j] \o df[j]]

\* the loop over the archives of parse_region_data; cd is columns_data
RECURSIVE ReadZips(_, _, _, _)
ReadZips(w, zs, file_name, cd) ==
  IF zs = <<>> THEN [w |-> w, err |-> "", named |-> <<>>, res |-> cd]
  ELSE Bind(Log(w, <<"open", Head(zs)>>),
            LAMBDA w1 :
              IF file_name \notin DOMAIN Loaded[Head(zs)]
              THEN ReadZips(w1, Tail(zs), file_name, cd)
              ELSE IF Loaded[Head(zs)][file_name].raises
              THEN Raise(w1, "ValueError")
              ELSE IF Loaded[Head(zs)][file_name].scalar
              THEN Raise(w1, IF cd = <<>> THEN "TypeError" ELSE "ValueError")
              ELSE Bind(Accumulate(cd, Loaded[Head(zs)][file_name].df),
                        LAMBDA cd1 : ReadZips(w1, Tail(zs), file_name, cd1)))

\* columns_data.insert(0, numpy.full((1, len(columns_data[0])), region)[0])
InsertRegion(cd, region) ==
  <<[k \in 1..Len(cd[1]) |-> region]>> \o cd

\* ReadRegion returning a table without rows when no member was found
ReadRegion_empty(d, region) ==
  IF d.err # "" THEN d
  ELSE Bind(ReadZips(Log(d.w, <<"glob">>), d.w.zips, regions_files[region], <<>>),
            LAMBDA rz :
              IF rz.err # "" THEN rz
              ELSE [w |-> rz.w, err |-> "", named |-> <<>>,
                    res |-> [names |-> Names,
                             cols |-> IF rz.res = <<>>
                                      THEN [j \in 1..NumColumns |-> <<>>]
                                      ELSE InsertRegion(rz.res, region)]])

\* the part of parse_region_data after the archive check, d its outcome
ReadRegion(d, region) ==
  IF d.err # "" THEN d
  ELSE Bind(ReadZips(Log(d.w, <<"glob">>), d.w.zips, regions_files[region], <<>>),
            LAMBDA rz :
              IF rz.err # "" THEN rz
              ELSE IF rz.res = <<>> THEN Raise(rz.w, "AttributeError")
              ELSE [w |-> rz.w, err |-> "", named |-> <<>>,
                    res |-> [names |-> Names,
                             cols |-> InsertRegion(rz.res, region)]])

\* parse_region_data without the exception for January
parse_region_data_nojan(w, region, wb, nw) ==
  IF region \notin DOMAIN regions_files
  THEN RaiseNamed(w, "NotImplementedError", <<region>>)
  ELSE Bind(IF Len(w.zips) # nw.year - FIRST_YEAR + 1
            THEN download_data(Log(Log(w, <<"glob">>), <<"fetch">>), wb, nw)
            ELSE Ok(Log(w, <<"glob">>)),
            LAMBDA d : ReadRegion(d, region))

parse_region_data(w, region, wb, nw) ==
  IF region \notin DOMAIN regions_files
  THEN RaiseNamed(w, "NotImplementedError", <<region>>)
  ELSE Bind(IF Len(w.zips) # nw.year - FIRST_YEAR + 1 /\ nw.month # 1
            THEN download_data(Log(Log(w, <<"glob">>), <<"fetch">>), wb, nw)
            ELSE Ok(Log(w, <<"glob">>)),
            LAMBDA d : ReadRegion(d, region))

(***************************************************************************)
(* The cache files.  pickle stores, for every column, the name kept in the *)
(* names list and the array with its dtype; loading rebuilds the pair      *)
(* (names, arrays).                                                        *)
(***************************************************************************)
\* dtype of the array of schema column i of a table
ArrayDtype(i) == IF i = 0 THEN "=U3" ELSE ColDtype(i)

pickle_dump(t) ==
  [k \in 1..Len(t.cols) |->
     [name |-> t.names[k], dtype |-> ArrayDtype(k - 1), data |-> t.cols[k]]]

pickle_load(blob) ==
  [names |-> [k \in 1..Len(blob) |-> blob[k].name],
   cols |-> [k \in 1..Len(blob) |-> blob[k].data]]

(***************************************************************************)
(* get_list.  The variable output refers to the memo entry of the first    *)
(* region processed (a tuple whose list of columns is shared), so the      *)
(* assignments output[1][j] = ... are updates of w.memo[w.first].          *)
(***************************************************************************)
\* the memo is never consulted
MemoEmpty_always(w, i) == TRUE

\* self.regions_cache[i] == None
MemoEmpty(w, i) == w.memo[i] = None

\* a cache file counts only while the folder holds archives
CacheFileExists_zips(w, i) == w.files[i] # NoFile /\ w.zips # <<>>

\* glob.glob(f"{self.folder}/{self.cache_filename.format(i)}") is not empty
CacheFileExists(w, i) == w.files[i] # NoFile

\* pickle.dump(output, cache): the accumulated output is stored
SaveCache_output(w, i) ==
  [Log(w, <<"write", i>>) EXCEPT
     !.files[i] = pickle_dump(w.memo[IF w.first = "" THEN i ELSE w.first])]

\* with gzip.open(..., 'wb') as cache: pickle.dump(self.regions_cache[i], cache)
SaveCache(w, i) ==
  [Log(w, <<"write", i>>) EXCEPT !.files[i] = pickle_dump(w.memo[i])]

\* with gzip.open(..., 'rb') as cache: self.regions_cache[i] = pickle.load(cache)
LoadCache(w, i) ==
  [Log(w, <<"read", i>>) EXCEPT !.memo[i] = pickle_load(w.files[i])]

\* output[1][j] = numpy.concatenate((output[1][j], regions_cache[i][1][j]))
\* for every j, or output = regions_cache[i] when output is None
Concentrate(w, i) ==
  Bind(w, LAMBDA v :
         IF v.first = "" THEN [Log(v, <<"concat", i>>) EXCEPT !.first = i]
         ELSE [Log(v, <<"concat", i>>) EXCEPT !.memo[v.first].cols =
                 [j \in 1..Len(@) |-> @[j] \o v.memo[i].cols[j]]])

\* one iteration of the branch "regions is None": region i in world w,
\* and the world the next iteration starts in
ResolveAll(w, i, wb, nw) ==
  IF i \notin DOMAIN w.memo THEN Raise(w, "KeyError")
  ELSE IF MemoEmpty(w, i)
  THEN IF ~CacheFileExists(w, i)
       THEN Bind(parse_region_data(Log(Log(w, <<"stat", i>>), <<"build", i>>),
                                   i, wb, nw),
                 LAMBDA b :
                   IF b.err # "" THEN b
                   ELSE Ok(Concentrate(
                             SaveCache([b.w EXCEPT !.memo[i] = b.res,
                                                   !.built[i] = b.res], i), i)))
       ELSE Ok(Concentrate(LoadCache(Log(w, <<"stat", i>>), i), i))
  ELSE Ok(Concentrate(w, i))

\* the loop of the branch "regions is None", from the k-th key on
RECURSIVE get_list_all(_, _, _, _)
get_list_all(w, k, wb, nw) ==
  IF k > Len(RegionOrder) THEN Ok(w)
  ELSE Bind(ResolveAll([w EXCEPT !.order = Append(@, RegionOrder[k])],
                       RegionOrder[k], wb, nw),
            LAMBDA g : IF g.err # "" THEN g
                       ELSE get_list_all(g.w, k + 1, wb, nw))

\* ResolveSome with the cache file created before the Builder is called
ResolveSome_filefirst(w, i, wb, nw) ==
  IF i \notin DOMAIN w.memo THEN Raise(w, "KeyError")
  ELSE IF MemoEmpty(w, i)
  THEN IF ~CacheFileExists(w, i)
       THEN Bind(parse_region_data(Log(Log(w, <<"stat", i>>), <<"build", i>>),
                                   i, wb, nw),
                 LAMBDA b :
                   IF b.err # ""
                   THEN [b EXCEPT !.w.files[i] =
                           pickle_dump([names |-> Names,
                                        cols |-> [j \in 1..NumColumns |-> <<>>]])]
                   ELSE Ok(Concentrate(
                             SaveCache([b.w EXCEPT !.memo[i] = b.res,
                                                   !.built[i] = b.res], i), i)))
       ELSE Ok(Concentrate(LoadCache(Log(w, <<"stat", i>>), i), i))
  ELSE Ok(Concentrate(w, i))

\* one iteration of the branch for specific regions
ResolveSome(w, i, wb, nw) ==
  IF i \notin DOMAIN w.memo THEN Raise(w, "KeyError")
  ELSE IF MemoEmpty(w, i)
  THEN IF ~CacheFileExists(w, i)
       THEN Bind(parse_region_data(Log(Log(w, <<"stat", i>>), <<"build", i>>),
                                   i, wb, nw),
                 LAMBDA b :
                   IF b.err # "" THEN b
                   ELSE Ok(Concentrate(
                             SaveCache([b.w EXCEPT !.memo[i] = b.res,
                                                   !.built[i] = b.res], i), i)))
       ELSE Ok(Concentrate(LoadCache(Log(w, <<"stat", i>>), i), i))
  ELSE Ok(Concentrate(w, i))

\* the loop of the branch for specific regions, from the k-th element on
RECURSIVE get_list_some(_, _, _, _, _)
get_list_some(w, regions, k, wb, nw) ==
  IF k > Len(regions) THEN Ok(w)
  ELSE Bind(ResolveSome([w EXCEPT !.order = Append(@, regions[k])],
                        regions[k], wb, nw),
            LAMBDA g : IF g.err # "" THEN g
                       ELSE get_list_some(g.w, regions, k + 1, wb, nw))

\* the argument regions=None
NoRegions == [all |-> TRUE, list |-> <<>>]

Explicit(list) == [all |-> FALSE, list |-> list]

\* only the first requested code is validated
AllKnown_first(regions) ==
  regions = <<>> \/ regions[1] \in DOMAIN regions_files

\* all(region in regions_files for region in regions)
AllKnown(regions) ==
  \A k \in 1..Len(regions) : regions[k] \in DOMAIN regions_files

get_list(w, regions, wb, nw) ==
  Bind(IF regions.all THEN get_list_all(w, 1, wb, nw)
       ELSE IF AllKnown(regions.list)
       THEN get_list_some(w, regions.list, 1, wb, nw)
       ELSE RaiseNamed(w, "NotImplementedError", regions.list),
       LAMBDA g :
         IF g.err # "" THEN g
         ELSE IF g.w.first = "" THEN Raise(g.w, "TypeError")
         ELSE [w |-> g.w, err |-> "", named |-> <<>>,
               res |-> g.w.memo[g.w.first]])

(***************************************************************************)
(* The state machine: one DataDownloader instance at a time working on one *)
(* folder, the index page and the clock as environment.                    *)
(***************************************************************************)
UnknownRegion == "ZZZ"

\* the codes the explicit requests of the model are made of
RequestCodes == {"STC", "MSK", UnknownRegion}

RECURSIVE SeqsUpTo(_, _)
SeqsUpTo(S, n) ==
  IF n = 0 THEN {<<>>}
  ELSE LET T == SeqsUpTo(S, n - 1)
       IN T \cup {Append(t, x) : t \in {u \in T : Len(u) = n - 1}, x \in S}

\* the arguments get_list is called with: no argument, and lists with one
\* region, several regions, a repeated region, an unknown code in each
\* position, and no region at all
Requests ==
  {NoRegions} \cup
  {Explicit(l) : l \in {<<>>, <<"STC">>, <<"MSK">>, <<UnknownRegion>>,
                        <<"STC", "MSK">>, <<"MSK", "STC">>, <<"STC", "STC">>,
                        <<"STC", UnknownRegion>>, <<UnknownRegion, "MSK">>,
                        <<"STC", "MSK", "STC">>,
                        <<"MSK", "STC", UnknownRegion>>}}

\* the world of a call started in the current state
World ==
  [memo |-> regions_cache, files |-> files, zips |-> zips,
   log |-> <<>>, first |-> "", order |-> <<>>,
   built |-> [r \in Regions |-> None]]

Count(log, e) == Cardinality({k \in 1..Len(log) : log[k] = e})

NoCall ==
  [op |-> "", req |-> NoRegions, region |-> "", err |-> "", named |-> <<>>,
   out |-> None, log |-> <<>>, order |-> <<>>,
   built |-> [r \in Regions |-> None]]

\* cache files left by an earlier run over archive "A" alone
EarlierFile ==
  [r \in Regions |->
     pickle_dump([names |-> Names,
                  cols |-> InsertRegion(Loaded["A"][regions_files[r]].df, r)])]

FilesOf(S) == [r \in Regions |-> IF r \in S THEN EarlierFile[r] ELSE NoFile]

WebOk ==
  [index |-> "ok", links |-> <<"A", "B", "C">>,
   status |-> [z \in ZipPool |-> "ok"]]

WebHttpErr ==
  [index |-> "ok", links |-> <<"B", "A">>,
   status |-> [z \in ZipPool |-> IF z = "B" THEN "http_err" ELSE "ok"]]

WebLinkDown ==
  [index |-> "ok", links |-> <<"A", "C", "B">>,
   status |-> [z \in ZipPool |-> IF z = "B" THEN "net_err" ELSE "ok"]]

WebDown ==
  [index |-> "net_err", links |-> <<"A", "B", "C">>,
   status |-> [z \in ZipPool |-> "ok"]]

\* the index page answered with an error status and an error page
WebIndexErr ==
  [index |-> "http_err", links |-> <<"A", "B", "C">>,
   status |-> [z \in ZipPool |-> "ok"]]

Date(m, y) == [month |-> m, year |-> y]

\* the situations a run starts in: the cached regions, the archives of the
\* folder in glob order, the index page and the date
Scenarios ==
  {<<{}, <<>>, WebOk, Date(3, 2017)>>,
   <<{}, <<>>, WebOk, Date(2, 2017)>>,
   <<{}, <<>>, WebDown, Date(2, 2016)>>,
   <<{}, <<"A">>, WebOk, Date(1, 2017)>>,
   <<{}, <<"A">>, WebLinkDown, Date(3, 2016)>>,
   <<{}, <<"A">>, WebHttpErr, Date(2, 2017)>>,
   <<{}, <<"A", "B">>, WebDown, Date(2, 2017)>>,
   <<{}, <<"C", "A">>, WebOk, Date(1, 2017)>>,
   <<{}, <<"C">>, WebOk, Date(3, 2016)>>,
   <<{}, <<"B", "C">>, WebIndexErr, Date(4, 2016)>>,
   <<{}, <<"A">>, WebDown, Date(1, 2017)>>,
   <<{"STC"}, <<"B", "A">>, WebLinkDown, Date(3, 2017)>>,
   <<{"STC"}, <<"A">>, WebDown, Date(3, 2017)>>,
   <<Regions, <<>>, WebOk, Date(1, 2017)>>,
   <<Regions, <<"A", "C">>, WebOk, Date(2, 2017)>>}

InitMain ==
  /\ regions_cache = [r \in Regions |-> None]
  /\ \E sc \in Scenarios :
       files = FilesOf(sc[1]) /\ zips = sc[2] /\ web = sc[3] /\ now = sc[4]
  /\ last = NoCall
  /\ reads = [r \in Regions |-> 0]
  /\ builds = [r \in Regions |-> 0]
  /\ failed = FALSE
  /\ ncalls = 0

\* no source column: a repair function called on its own
NoColumn == 0 - 1

\* out before any repair: out.fn is the function applied, out.col the source
\* column whose converter and dtype were used, out.val the repaired text,
\* out.conv the outcome of storing it, out.pass the number of applications
\* and out.again the result of the second one
NoCell ==
  [fn |-> "", col |-> NoColumn, val |-> <<>>, conv |-> "", pass |-> 0,
   again |-> <<>>]

Init ==
  /\ InitMain
  /\ raw = <<>>
  /\ out = NoCell
  /\ num = 0
  /\ rounded = <<>>

\* the effect of a call with result g on the state
Effect(op, req, region, g) ==
  /\ regions_cache' = g.w.memo
  /\ files' = g.w.files
  /\ zips' = g.w.zips
  /\ last' = [op |-> op, req |-> req, region |-> region, err |-> g.err,
              named |-> g.named, out |-> g.res, log |-> g.w.log,
              order |-> g.w.order, built |-> g.w.built]
  /\ reads' = [r \in Regions |-> reads[r] + Count(g.w.log, <<"read", r>>)]
  /\ builds' = [r \in Regions |-> builds[r] + Count(g.w.log, <<"build", r>>)]
  /\ failed' = (failed \/ (op = "get_list" /\ g.err # ""))
  /\ ncalls' = ncalls + 1
  /\ UNCHANGED <<web, now, raw, out, num, rounded>>

GetList(regions) ==
  /\ ncalls < MaxCalls
  /\ \E g \in {get_list(World, regions, web, now)} :
       Effect("get_list", regions, "", g)

ParseRegionData(region) ==
  /\ ncalls < MaxCalls
  /\ \E g \in {parse_region_data(World, region, web, now)} :
       Effect("parse_region_data", NoRegions, region, g)

DownloadData ==
  /\ ncalls < MaxCalls
  /\ \E g \in {download_data(World, web, now)} :
       Effect("download_data", NoRegions, "", g)

\* DataDownloader(): a new instance over the same folder
NewInstance ==
  /\ ncalls > 0
  /\ regions_cache' = [r \in Regions |-> None]
  /\ last' = NoCall
  /\ reads' = [r \in Regions |-> 0]
  /\ builds' = [r \in Regions |-> 0]
  /\ failed' = FALSE
  /\ ncalls' = 0
  /\ UNCHANGED <<files, zips, web, now, raw, out, num, rounded>>

Next ==
  \/ \E regions \in Requests : GetList(regions)
  \/ \E region \in RequestCodes : ParseRegionData(region)
  \/ DownloadData
  \/ NewInstance

Spec == Init /\ [][Next]_vars

(***************************************************************************)
(* The repair functions on their own: a raw cell is drawn from the texts   *)
(* over CellChars of length up to MaxCell and a repair function is applied *)
(* to it.                                                                  *)
(***************************************************************************)
Quote == "\""

CellChars == {Quote, "1", "5", ",", ".", "-", " ", "a", "b", "c", "e", "_"}

Cells == SeqsUpTo(CellChars, MaxCell)

\* two-character hour and minute fields of a clock-time cell
HourFields ==
  {<<"0","8">>, <<"0","9">>, <<"2","4">>, <<"2","5">>, <<"-","5">>,
   <<" ","7">>, <<"a","1">>}

MinuteFields ==
  {<<"4","5">>, <<"5","9">>, <<"6","0">>, <<"7","0">>, <<"3","0">>,
   <<"b","0">>}

\* clock-time cells: quoted HHMM fields, and fields without the quotes
TimeCells ==
  {<<Quote>> \o h \o m \o <<Quote>> : h \in HourFields, m \in MinuteFields}
    \cup {<<"0","8","4","5">>, <<"0","8",":","4","5">>, <<Quote,"0","9",Quote>>}

\* integer cells at and beyond the limits of the 1-, 2- and 4-byte columns
WideCells ==
  {<<"1","2","7">>, <<"1","2","8">>, <<"-","1","2","8">>, <<"-","1","2","9">>,
   <<"0","0","0","1","2","7">>, <<"1","_","2","8">>,
   <<"3","2","7","6","7">>, <<"3","2","7","6","8">>,
   <<"-","3","2","7","6","8">>, <<Quote,"5","5","5","5","5",Quote>>,
   <<"2","1","4","7","4","8","3","6","4","7">>,
   <<"2","1","4","7","4","8","3","6","4","8">>,
   <<"-","2","1","4","7","4","8","3","6","4","8">>,
   <<"5","5","5","5","5","5","5","5","5","5","5">>}

\* calendar-date cells
DateCells ==
  {<<Quote,"2","0","1","6","-","0","1","-","3","1",Quote>>,
   <<"2","0","1","6","-","0","2","-","3","0">>,
   <<"3","1",".","0","1",".","2","0","1","6">>,
   <<"2","0","1","6","-","1","3">>}

RawCells == Cells \cup TimeCells \cup WideCells \cup DateCells

InitRepair ==
  /\ regions_cache = [r \in Regions |-> None]
  /\ files = FilesOf({})
  /\ zips = <<>>
  /\ web = WebOk
  /\ now = Date(1, FIRST_YEAR)
  /\ last = NoCall
  /\ reads = [r \in Regions |-> 0]
  /\ builds = [r \in Regions |-> 0]
  /\ failed = FALSE
  /\ ncalls = 0
  /\ raw \in RawCells
  /\ out = NoCell
  /\ num = 0
  /\ rounded = <<>>

RepairFunctions == {"parse_i", "parse_f", "parse_u5", "parse_u_m"}

\* the repair function fn applied to x
Repair(fn, x) ==
  CASE fn = "parse_i" -> parse_i(x)
    [] fn = "parse_f" -> parse_f(x)
    [] fn = "parse_u5" -> parse_u5(x)
    [] fn = "parse_u_m" -> parse_u_m(x)

Apply(fn, val) ==
  /\ out' = [fn |-> fn, col |-> NoColumn, val |-> val, conv |-> "",
             pass |-> 1, again |-> <<>>]
  /\ UNCHANGED <<raw, regions_cache, files, zips, web, now, last, reads,
                 builds, failed, ncalls, num, rounded>>

ApplyParseI == Apply("parse_i", parse_i(raw))

ApplyParseF == Apply("parse_f", parse_f(raw))

ApplyParseU5 == Apply("parse_u5", parse_u5(raw))

ApplyParseUM == Apply("parse_u_m", parse_u_m(raw))

\* the repair function applied once more, to its own result
Reapply ==
  /\ out.pass = 1
  /\ out.fn \in RepairFunctions
  /\ out' = [out EXCEPT !.pass = 2, !.again = Repair(out.fn, out.val)]
  /\ UNCHANGED <<raw, regions_cache, files, zips, web, now, last, reads,
                 builds, failed, ncalls, num, rounded>>

\* one source column of each dtype: ID, Communication type, Communication
\* number, YYYY-MM-DD, Time, Accident main causes, a
ConvColumns == {0, 1, 2, 3, 5, 12, 45}

\* numpy.loadtxt on one cell of source column i: the converter of the
\* column, then the storing of its result into the field of the column
Convert(i) ==
  /\ \E c \in ConvOutcomes(ColDtype(i + 1), Converter(i, raw)) :
       out' = [fn |-> "convert", col |-> i, val |-> Converter(i, raw),
               conv |-> c, pass |-> 1, again |-> <<>>]
  /\ UNCHANGED <<raw, regions_cache, files, zips, web, now, last, reads,
                 builds, failed, ncalls, num, rounded>>

NextRepair ==
  \/ ApplyParseI
  \/ ApplyParseF
  \/ ApplyParseU5
  \/ ApplyParseUM
  \/ Reapply
  \/ \E i \in ConvColumns : Convert(i)

SpecRepair == InitRepair /\ [][NextRepair]_vars

(***************************************************************************)
(* round1000 of get_stat.py on its own: its integer argument num is drawn   *)
(* from -MaxRound..MaxRound and the function is applied to it; rounded is  *)
(* empty before the call and holds the returned value after it.            *)
(***************************************************************************)
\* round1000 adding to every argument, a multiple of 1000 included
round1000_up(n) ==
  IF n < 1000 THEN 1000 ELSE n + 1000 - (n % 1000)

round1000(n) ==
  IF n < 1000 THEN 1000
  ELSE IF n % 1000 = 0 THEN n ELSE n + 1000 - (n % 1000)

InitRound ==
  /\ regions_cache = [r \in Regions |-> None]
  /\ files = FilesOf({})
  /\ zips = <<>>
  /\ web = WebOk
  /\ now = Date(1, FIRST_YEAR)
  /\ last = NoCall
  /\ reads = [r \in Regions |-> 0]
  /\ builds = [r \in Regions |-> 0]
  /\ failed = FALSE
  /\ ncalls = 0
  /\ raw = <<>>
  /\ out = NoCell
  /\ num \in (0 - MaxRound)..MaxRound
  /\ rounded = <<>>

Round1000 ==
  /\ rounded = <<>>
  /\ rounded' = <<round1000(num)>>
  /\ UNCHANGED <<num, mainVars, cellVars>>

NextRound == Round1000

SpecRound == InitRound /\ [][NextRound]_vars

(***************************************************************************)
(* Properties.                                                             *)
(***************************************************************************)
Has(log, e) == \E k \in 1..Len(log) : log[k] = e

\* position of the first occurrence of e in log, or 0
Pos(log, e) ==
  IF Has(log, e) THEN CHOOSE k \in 1..Len(log) :
                        log[k] = e /\ \A m \in 1..(k - 1) : log[m] # e
  ELSE 0

Elems(seq) == {seq[k] : k \in 1..Len(seq)}

\* a step that is a call of a method of the instance
IsCall == ncalls' = ncalls + 1

\* a new instance over the current folder
FreshWorld == [World EXCEPT !.memo = [r \in Regions |-> None]]

\* get_list([r]) on its own, on a new instance
Alone(r) == get_list(FreshWorld, Explicit(<<r>>), web, now)

RECURSIVE RegionColumns(_)
RegionColumns(list) ==
  IF list = <<>> THEN <<>>
  ELSE Alone(Head(list)).res.cols[1] \o RegionColumns(Tail(list))

RECURSIVE SumRows(_)
SumRows(list) ==
  IF list = <<>> THEN 0
  ELSE RowCount(Alone(Head(list)).res) + SumRows(Tail(list))

\* C1: a successful get_list(R) returns as many rows as the get_list([ri])
\* return together, and its region column is the region columns of
\* r1, r2, ... one after the other.
C1_Claim ==
  (last.op = "get_list" /\ ~last.req.all /\ last.err = "")
    => /\ RowCount(last.out) = SumRows(last.req.list)
       /\ last.out.cols[1] = RegionColumns(last.req.list)

RECURSIVE TotalRows(_, _)
TotalRows(f, zs) ==
  IF zs = <<>> THEN 0
  ELSE (IF f \in DOMAIN ZipMembers(Head(zs))
        THEN Len(ZipMembers(Head(zs))[f]) ELSE 0) + TotalRows(f, Tail(zs))

\* C2: the table parse_region_data returns has 65 columns, each as long as
\* the number of rows of all members named as the region's file in the
\* archives of the folder, and column 0 holds the region code only.
C2_BuilderRowCount ==
  (last.op = "parse_region_data" /\ last.err = "")
    => /\ Len(last.out.cols) = 65
       /\ Len(last.out.names) = 65
       /\ \A j \in 1..65 :
            Len(last.out.cols[j]) = TotalRows(regions_files[last.region], zips)
       /\ \A k \in 1..Len(last.out.cols[1]) : last.out.cols[1][k] = last.region

C2_Witness ==
  /\ last.op = "parse_region_data" /\ last.err = "" /\ last.region = "STC"
  /\ Len(zips) = 2
  /\ RowCount(last.out) = 5

\* C3: in a get_list call a region without memo entry is resolved by the
\* presence of its cache file alone: present, the file is read and nothing
\* else is done for the region (no build, no download); absent, the Builder
\* is called and its result is written to the file before it is
\* concatenated.
C3_Step ==
  (IsCall /\ last'.op = "get_list")
    => \A r \in Elems(last'.order) \cap Regions :
         regions_cache[r] = None
           => LET p == Pos(last'.log, <<"stat", r>>)
                  q == Pos(last'.log, <<"write", r>>)
              IN /\ p > 0
                 /\ IF files[r] # NoFile
                    THEN /\ Len(last'.log) >= p + 2
                         /\ last'.log[p + 1] = <<"read", r>>
                         /\ last'.log[p + 2] = <<"concat", r>>
                         /\ ~Has(last'.log, <<"build", r>>)
                         /\ ~Has(last'.log, <<"write", r>>)
                    ELSE /\ Len(last'.log) >= p + 1
                         /\ last'.log[p + 1] = <<"build", r>>
                         /\ ~Has(last'.log, <<"read", r>>)
                         /\ q > 0 => /\ files'[r] # NoFile
                                     /\ q < Pos(last'.log, <<"concat", r>>)
                         /\ q = 0 => /\ last'.err # ""
                                     /\ ~Has(last'.log, <<"concat", r>>)

C3_CacheResolution == [][C3_Step]_vars

C3_Witness ==
  /\ last.op = "get_list" /\ last.err = ""
  /\ Has(last.log, <<"read", "STC">>)
  /\ Has(last.log, <<"write", "MSK">>)
  /\ zips # <<>>

\* C4: once the memo entry of a region is filled no call reads its cache
\* file or builds it again, and as long as no get_list call has failed each
\* region was read at most once and built at most once.
C4_Step ==
  IsCall
    => \A r \in Regions :
         /\ regions_cache[r] # None
              => reads'[r] = reads[r] /\ builds'[r] = builds[r]
         /\ ~failed' => reads'[r] + builds'[r] <= 1

C4_Memoization == [][C4_Step]_vars

C4_Witness ==
  /\ ncalls = 2 /\ ~failed
  /\ last.op = "get_list" /\ ~last.req.all
  /\ "STC" \in Elems(last.req.list)
  /\ reads["STC"] = 1
  /\ ~Has(last.log, <<"read", "STC">>)

\* C5: the cache file written for a region holds the table the Builder
\* returned, and a new instance gets that table (names and arrays) back
\* from it.
C5_CacheRoundTrip ==
  \A r \in Regions :
    last.built[r] # None
      => /\ pickle_load(files[r]) = last.built[r]
         /\ \A g \in {Alone(r)} :
              /\ g.err = ""
              /\ g.res.names = last.built[r].names
              /\ g.res.cols = last.built[r].cols

C5_Witness ==
  /\ last.op = "get_list" /\ last.req = Explicit(<<"STC", "MSK">>)
  /\ last.built["STC"] # None /\ last.built["MSK"] # None
  /\ RowCount(last.built["MSK"]) > 0

\* the 14 region codes
KnownCodes ==
  {"PHA", "STC", "JHC", "PLK", "ULK", "HKK", "JHM",
   "MSK", "OLK", "ZLK", "VYS", "PAK", "LBK", "KVK"}

\* C6: get_list with an unknown code anywhere in its list, and
\* parse_region_data with an unknown code, raise and do nothing else: no
\* I/O operation, no call, no change of the memo or of the folder.
C6_Step ==
  (/\ IsCall
   /\ \/ /\ last'.op = "get_list" /\ ~last'.req.all
         /\ Elems(last'.req.list) \ KnownCodes # {}
      \/ /\ last'.op = "parse_region_data"
         /\ last'.region \notin KnownCodes)
    => /\ last'.err = "NotImplementedError"
       /\ last'.log = <<>>
       /\ regions_cache' = regions_cache
       /\ files' = files
       /\ zips' = zips

C6_UnknownRegionNoIO == [][C6_Step]_vars

C6_Witness ==
  /\ last.op = "get_list" /\ last.req = Explicit(<<"STC", UnknownRegion>>)
  /\ last.err = "NotImplementedError"
  /\ files["STC"] = NoFile

\* C7: the error get_list raises for unknown codes names exactly the
\* requested codes that are not known regions.
C7_Claim ==
  (last.op = "get_list" /\ last.err = "NotImplementedError")
    => Elems(last.named) = Elems(last.req.list) \ KnownCodes

\* the 14 codes in declaration order
DeclarationOrder ==
  <<"PHA", "STC", "JHC", "PLK", "ULK", "HKK", "JHM",
    "MSK", "OLK", "ZLK", "VYS", "PAK", "LBK", "KVK">>

\* C8: get_list() goes through the 14 regions in declaration order and does
\* what get_list of the explicit 14-element list does in the same state.
C8_Step ==
  (IsCall /\ last'.op = "get_list" /\ last'.req.all)
    => \A e \in {get_list(World, Explicit(DeclarationOrder), web, now)} :
          /\ last'.err = e.err
          /\ last'.out = e.res
          /\ regions_cache' = e.w.memo
          /\ files' = e.w.files
          /\ zips' = e.w.zips
          /\ last'.log = e.w.log
          /\ last'.order = SubSeq(DeclarationOrder, 1, Len(last'.order))
          /\ last'.err = "" => last'.order = DeclarationOrder

C8_AllRegionsDefault == [][C8_Step]_vars

C8_Witness ==
  /\ last.op = "get_list" /\ last.req.all /\ last.err = ""
  /\ Has(last.log, <<"build", "KVK">>)
  /\ RowCount(last.out) >= 28

\* the cell with every double-quote character removed
Unquoted(cell) == SelectSeq(cell, LAMBDA c : c # Quote)

\* C9 as stated: parse_i strips the quotes around the cell and returns the
\* rest if it parses as an integer, else "-1".
C9_Claim ==
  out.fn = "parse_i"
    => LET s == Strip(raw, {Quote})
       IN out.val = IF IntParses(s) THEN s ELSE Minus1

\* C9 amended: parse_i removes every double-quote character of the cell and
\* returns the rest if it parses as an integer, else "-1".
C9_IntegerRepair ==
  out.fn = "parse_i"
    => out.val = IF IntParses(Unquoted(raw)) THEN Unquoted(raw) ELSE Minus1

C9_Witness ==
  /\ out.fn = "parse_i"
  /\ raw = <<"1", Quote, "5">>
  /\ out.val = <<"1", "5">>

\* C10: parse_f removes the quotes and turns every comma into a point; the
\* result is returned if it parses as a number, else "-1"; "1,5" gives
\* "1.5" and "abc" gives "-1".
C10_FloatRepair ==
  out.fn = "parse_f"
    => LET t == [k \in 1..Len(Unquoted(raw)) |->
                   IF Unquoted(raw)[k] = "," THEN "." ELSE Unquoted(raw)[k]]
       IN /\ out.val = IF FloatParses(t) THEN t ELSE Minus1
          /\ raw = <<"1", ",", "5">> => out.val = <<"1", ".", "5">>
          /\ raw = <<"a", "b", "c">> => out.val = <<"-", "1">>

C10_Witness ==
  /\ out.fn = "parse_f"
  /\ raw = <<Quote, ",", "5">>
  /\ out.val = <<".", "5">>

\* the hour and minute fields of a raw clock-time cell
Hours(cell) == Slice(cell, 1, 3)

Minutes(cell) == Slice(cell, 3, 5)

\* the raw clock-time cell fails its validation
TimeInvalid(cell) ==
  \/ ~IntParses(Hours(cell))
  \/ ~IntParses(Minutes(cell))
  \/ IntValue(Hours(cell)) > 24

\* C11 as stated: parse_u5 gives the sentinel "-1" when the hours or the
\* minutes do not parse or the hours exceed 24, the two hour characters when
\* the minutes exceed 59, and HH:MM otherwise; the quoted fields 2530, 0970
\* and 0845 give "-1", "09" and "08:45".
C11_Claim ==
  out.fn = "parse_u5"
    => /\ out.val = IF TimeInvalid(raw) THEN Minus1
                    ELSE IF IntValue(Minutes(raw)) > 59 THEN Hours(raw)
                    ELSE Hours(raw) \o <<":">> \o Minutes(raw)
       /\ raw = <<Quote, "2", "5", "3", "0", Quote>> => out.val = Minus1
       /\ raw = <<Quote, "0", "9", "7", "0", Quote>> => out.val = <<"0", "9">>
       /\ raw = <<Quote, "0", "8", "4", "5", Quote>>
            => out.val = <<"0", "8", ":", "4", "5">>

\* the raw cell fails the validation of the repair function fn
Invalid(fn, cell) ==
  CASE fn = "parse_i" -> ~IntParses(Unquoted(cell))
    [] fn = "parse_f" -> ~FloatParses(Replace(Unquoted(cell), ",", <<".">>))
    [] fn = "parse_u5" -> TimeInvalid(cell)
    [] OTHER -> FALSE

\* C12 as stated: whatever the validated type (integer, float, clock-time),
\* a cell that fails its validation is replaced by the same value, "-1".
C12_Claim ==
  out.fn \in {"parse_i", "parse_f", "parse_u5"} /\ Invalid(out.fn, raw)
    => out.val = Minus1

\* C13 as stated: for every repair function, applying it to its own result
\* changes nothing.
C13_Claim ==
  out.pass = 2 => out.again = out.val

\* C13 amended: the integer, float and text repairs applied to their own
\* result change nothing; the clock-time repair applied to its own result
\* gives the empty text, so that HH:MM and hours-only values are not kept.
C13_Idempotence ==
  out.pass = 2
    => /\ out.fn \in {"parse_i", "parse_f", "parse_u_m"}
            => out.again = out.val
       /\ out.fn = "parse_u5" => out.again = <<>>

C13_Witness ==
  /\ out.pass = 2
  /\ out.fn = "parse_u_m"
  /\ raw = <<Quote, Quote, "a">>
  /\ out.val = <<"a">>
  /\ out.again = <<"a">>

\* the columns with a validating repair policy or the text policy: every
\* source column but the calendar date
HasRepairPolicy(i) == ~IsDateDtype(ColDtype(i + 1))

\* C14 as stated: what the converter of a column emits is stored into the
\* column without raising, and an integer text emitted for an i1, i2 or i4
\* column lies in the signed range of that width.
C14_Claim ==
  out.fn = "convert" /\ HasRepairPolicy(out.col)
    => /\ out.conv = "ok"
       /\ IsIntDtype(ColDtype(out.col + 1))
            => InRange(ColDtype(out.col + 1), out.val)

\* region r is built in the call just made
Built(r) ==
  \/ last'.op = "parse_region_data" /\ last'.region = r
  \/ last'.op = "get_list" /\ Has(last'.log, <<"build", r>>)

\* the text of the calendar-date cell of a csv row (source column 3)
DateCell(row) == RawCell(row, 3)

\* the member f of archive z has a row with a malformed date
BadDateMember(z, f) ==
  /\ f \in DOMAIN ZipMembers(z)
  /\ \E k \in 1..Len(ZipMembers(z)[f]) :
       ~DateParses(Unquoted(DateCell(ZipMembers(z)[f][k])))

\* the member f of archive z is read without an error
GoodMember(z, f) ==
  f \in DOMAIN ZipMembers(z)
    => /\ ~BadDateMember(z, f)
       /\ Len(ZipMembers(z)[f]) # 1

\* the first member of file f that cannot be read has a malformed date
BadDateFirst(f, zs) ==
  \E k \in 1..Len(zs) :
    /\ BadDateMember(zs[k], f)
    /\ \A m \in 1..(k - 1) : GoodMember(zs[m], f)

\* C15: the converter of the date column only removes the quotes, whatever
\* the cell; and when a member of the region's file has a malformed date,
\* the call that builds the region (parse_region_data, or get_list around
\* it) raises ValueError once the download, if any, is through: no table
\* is returned and no cache file is written.
C15_Step ==
  (IsCall /\ last'.err # "ConnectionError")
    => \A r \in Regions :
         (Built(r) /\ BadDateFirst(regions_files[r], zips'))
           => /\ last'.err = "ValueError"
              /\ last'.out = None
              /\ files'[r] = files[r]
              /\ \A z \in Elems(zips') :
                   regions_files[r] \in DOMAIN ZipMembers(z)
                     => \A k \in 1..Len(ZipMembers(z)[regions_files[r]]) :
                          LET c == DateCell(ZipMembers(z)[regions_files[r]][k])
                          IN Converter(3, c) = Unquoted(c)

C15_DateRaises == [][C15_Step]_vars

C15_Witness ==
  /\ last.op = "get_list" /\ last.req = Explicit(<<"STC", "MSK">>)
  /\ Has(last.log, <<"write", "STC">>)
  /\ Has(last.log, <<"build", "MSK">>)
  /\ "C" \in Elems(zips)
  /\ last.err = "ValueError"
  /\ files["MSK"] = NoFile

\* no archive of zs has a member named f
NoMember(f, zs) == \A k \in 1..Len(zs) : f \notin DOMAIN ZipMembers(zs[k])

\* C16: when no archive of the folder has a member named as the region's
\* file (the folder may hold no archive at all), the call that builds the
\* region raises (AttributeError, unless a download failed before), returns
\* no table, leaves the memo entry empty and writes no cache file for the
\* region.
C16_Step ==
  IsCall
    => \A r \in Regions :
         (Built(r) /\ NoMember(regions_files[r], zips'))
           => /\ last'.err \in {"AttributeError", "ConnectionError"}
              /\ Has(last'.log, <<"index">>) \/ last'.err = "AttributeError"
              /\ last'.out = None
              /\ regions_cache'[r] = regions_cache[r]
              /\ files'[r] = files[r]
              /\ ~Has(last'.log, <<"write", r>>)

C16_NoSourceFileRaises == [][C16_Step]_vars

C16_Witness ==
  /\ last.op = "get_list" /\ last.req = Explicit(<<"STC">>)
  /\ zips = <<"C">>
  /\ Has(last.log, <<"open", "C">>)
  /\ last.err = "AttributeError"
  /\ files["STC"] = NoFile

\* the folder does not hold one archive per year since 2016, and it is not
\* January
UpdateDue == Len(zips) # now.year - 2016 + 1 /\ now.month # 1

\* C17: parse_region_data of a known region calls download_data exactly
\* when the number of archives of the folder differs from
\* year - 2016 + 1 and the month is not January, and then once; in a
\* get_list call the Builder does so for the first region it builds, and
\* no call downloads in January or when the count matches.
C17_Step ==
  IsCall
    => /\ (last'.op = "parse_region_data" /\ last'.region \in KnownCodes)
            => /\ Has(last'.log, <<"fetch">>) <=> UpdateDue
               /\ Count(last'.log, <<"fetch">>) <= 1
               /\ Count(last'.log, <<"index">>) = Count(last'.log, <<"fetch">>)
       /\ last'.op = "get_list"
            => /\ Has(last'.log, <<"fetch">>)
                    <=> (UpdateDue /\ \E r \in Regions : Built(r))
               /\ Count(last'.log, <<"index">>) = Count(last'.log, <<"fetch">>)

C17_FetchTrigger == [][C17_Step]_vars

C17_Witness ==
  /\ last.op = "parse_region_data" /\ last.region = "STC"
  /\ now.month = 1
  /\ Len(zips) # now.year - 2016 + 1
  /\ ~Has(last.log, <<"fetch">>)
  /\ last.err = ""

\* the positions of log that hold an event of one of the kinds
Events(log, kinds) == {k \in 1..Len(log) : log[k][1] \in kinds}

\* C18: a call of download_data (direct, or made by parse_region_data)
\* removes every archive of the folder before it requests the index page,
\* requests the page once, and requests and saves archives only after
\* that; when the index request fails nothing is downloaded and the folder
\* is left without archives, and when it fails with a network error the
\* exception reaches the caller.
C18_Step ==
  (/\ IsCall
   /\ last'.op \in {"download_data", "parse_region_data"}
   /\ Has(last'.log, <<"index">>))
    => LET p == Pos(last'.log, <<"index">>)
       IN /\ Count(last'.log, <<"index">>) = 1
          /\ \A z \in Elems(zips) :
               \E k \in 1..(p - 1) : last'.log[k] = <<"rm", z>>
          /\ \A k \in Events(last'.log, {"rm"}) : k < p
          /\ \A k \in Events(last'.log, {"get", "save"}) : k > p
          /\ web.index # "ok"
               => /\ Events(last'.log, {"get", "save"}) = {}
                  /\ zips' = <<>>
          /\ web.index = "net_err"
               => /\ last'.err = "ConnectionError"
                  /\ last'.log[Len(last'.log)] = <<"index">>

Selected == SelectLinks(web.links, ArchiveMonth(web.links, now), now.year)

\* C19 as stated: in download_data a link that fails, by a network error or
\* by an error status, is skipped: the call does not raise, saves nothing
\* for that link and requests every other selected link.
C19_Claim ==
  (last.op = "download_data" /\ web.index = "ok")
    => /\ last.err = ""
       /\ \A z \in Elems(Selected) :
            /\ Has(last.log, <<"get", z>>)
            /\ web.status[z] # "ok" => ~Has(last.log, <<"save", z>>)
            /\ web.status[z] = "ok" => Has(last.log, <<"save", z>>)

\* the month a monthly archive is for; month 0 for the other archives
MonthOf(z) == IF z = "C" THEN Date(1, 2017) ELSE Date(0, 0)

PreviousMonth(d) ==
  IF d.month = 1 THEN Date(12, d.year - 1) ELSE Date(d.month - 1, d.year)

\* the month of the claim: the current one if the index page has its
\* archive, else the one before
ClaimedMonth ==
  IF \E z \in Elems(web.links) : MonthOf(z) = now
  THEN now ELSE PreviousMonth(now)

\* C20 as stated: of the monthly archives of the index page download_data
\* requests the one of the current month if it is there, else the one of
\* the previous month, and no other, whatever the month.
C20_Claim ==
  (last.op = "download_data" /\ web.index = "ok")
    => \A z \in Elems(web.links) :
         MonthOf(z).month # 0
           => (Has(last.log, <<"get", z>>) <=> MonthOf(z) = ClaimedMonth)

\* the repair policy of a semantic type
PolicyOf(dtype) ==
  IF IsIntDtype(dtype) THEN "parse_i"
  ELSE IF dtype = "f" THEN "parse_f"
  ELSE IF dtype = "=U5" THEN "parse_u5"
  ELSE "parse_u_m"

\* the table row a csv row of region r gives: the region code, then for
\* schema column j the cell of source column j - 1 repaired by the policy
\* of the type of column j and converted to that type
ExpectedRow(r, row) ==
  [j1 \in 1..65 |->
     IF j1 = 1 THEN r
     ELSE ConvValue(columns_names_dtypes[j1][2],
                    Repair(PolicyOf(columns_names_dtypes[j1][2]),
                           RawCell(row, j1 - 2)))]

\* the table rows of each region, over all archives
ExpectedRows ==
  [r \in Regions |->
     UNION {{ExpectedRow(r, ZipMembers(z)[regions_files[r]][k]) :
               k \in 1..Len(ZipMembers(z)[regions_files[r]])} :
            z \in {y \in ZipPool : regions_files[r] \in DOMAIN ZipMembers(y)}}]

\* C21: a table returned by parse_region_data or get_list has the 65 schema
\* names in schema order and 65 arrays of one length, and each of its rows
\* is, position by position, the region code followed by the 64 cells of
\* one csv row of that region, each repaired and converted as the schema
\* column of its position says.
C21_SchemaOrder ==
  (last.op \in {"parse_region_data", "get_list"} /\ last.err = "")
    => /\ last.out.names = [j1 \in 1..65 |-> columns_names_dtypes[j1][1]]
       /\ Len(last.out.cols) = 65
       /\ \A j1 \in 1..65 : Len(last.out.cols[j1]) = Len(last.out.cols[1])
       /\ \A k \in 1..Len(last.out.cols[1]) :
            /\ last.out.cols[1][k] \in Regions
            /\ [j1 \in 1..65 |-> last.out.cols[j1][k]]
                 \in ExpectedRows[last.out.cols[1][k]]
       /\ last.op = "parse_region_data"
            => \A k \in 1..Len(last.out.cols[1]) :
                 last.out.cols[1][k] = last.region

C21_Witness ==
  /\ last.op = "get_list" /\ last.req = Explicit(<<"STC", "MSK">>)
  /\ last.err = ""
  /\ Has(last.log, <<"build", "MSK">>)
  /\ Has(last.log, <<"read", "STC">>)
  /\ RowCount(last.out) >= 5
  /\ last.out.cols[3][1] # last.out.cols[4][1]

\* C22 as stated: a filled memo entry of region r is r's own table: its
\* region column holds r only and it has as many rows as the table of r's
\* cache file, also after get_list has concatenated other regions.
C22_Claim ==
  \A r \in Regions :
    regions_cache[r] # None
      => /\ \A k \in 1..RowCount(regions_cache[r]) :
              regions_cache[r].cols[1][k] = r
         /\ files[r] # NoFile
              => RowCount(regions_cache[r]) = RowCount(pickle_load(files[r]))

\* C23 as stated: a successful get_list(R) of known regions on an instance
\* that has served other calls returns the table a new instance returns for
\* get_list(R) over the same folder.
C23_Step ==
  (IsCall /\ last'.op = "get_list" /\ ~last'.req.all /\ last'.err = "")
    => \A g \in {get_list(FreshWorld, last'.req, web, now)} :
         g.err = "" /\ last'.out = g.res

C23_Claim == [][C23_Step]_vars

\* the ID column parse_region_data gives for file f and archives zs: the
\* IDs of the rows of each member in turn
RECURSIVE ExpectedIDs(_, _)
ExpectedIDs(f, zs) ==
  IF zs = <<>> THEN <<>>
  ELSE (IF f \in DOMAIN ZipMembers(Head(zs))
        THEN [k \in 1..Len(ZipMembers(Head(zs))[f]) |->
                Head(zs) \o DigitChar(k)]
        ELSE <<>>) \o ExpectedIDs(f, Tail(zs))

\* C24: the rows of the table parse_region_data returns are the rows of
\* the members named as the region's file, member after member in the
\* order of the archives in the folder and in the order of the rows in
\* each member; archives without such a member add nothing.
C24_RowOrder ==
  (last.op = "parse_region_data" /\ last.err = "")
    => /\ last.out.cols[2] = ExpectedIDs(regions_files[last.region], zips)
       /\ \A k \in 1..RowCount(last.out) :
            [j1 \in 1..65 |-> last.out.cols[j1][k]]
              \in ExpectedRows[last.region]

C24_Witness ==
  /\ last.op = "parse_region_data" /\ last.region = "STC" /\ last.err = ""
  /\ zips = <<"B", "A">>
  /\ last.out.cols[2] = <<"B1", "B2", "B3", "A1", "A2">>

\* C25: when the Builder raises for region r in a get_list call, the call
\* raises, the memo entry of r stays empty and r gets no cache file, while
\* the regions the call went through before r keep a filled memo entry and
\* their cache file; and a get_list call that comes to a region without
\* memo entry and without cache file calls the Builder for it, also after
\* an earlier failure.
C25_Step ==
  (IsCall /\ last'.op = "get_list")
    => \A r \in Regions :
         /\ (Has(last'.log, <<"build", r>>) /\ ~Has(last'.log, <<"write", r>>))
              => /\ last'.err # ""
                 /\ regions_cache'[r] = None
                 /\ files'[r] = NoFile
                 /\ last'.order[Len(last'.order)] = r
                 /\ \A k \in 1..(Len(last'.order) - 1) :
                      /\ regions_cache'[last'.order[k]] # None
                      /\ files'[last'.order[k]] # NoFile
                      /\ files[last'.order[k]] # NoFile
                           => files'[last'.order[k]] = files[last'.order[k]]
         /\ (r \in Elems(last'.order) /\ regions_cache[r] = None
             /\ files[r] = NoFile)
              => Has(last'.log, <<"build", r>>)

C25_BuilderFailure == [][C25_Step]_vars

C25_Witness ==
  /\ ncalls = 2 /\ failed
  /\ last.op = "get_list" /\ last.req = Explicit(<<"STC", "MSK">>)
  /\ builds["MSK"] = 2
  /\ last.err = "ValueError"
  /\ regions_cache["STC"] # None /\ files["STC"] # NoFile
  /\ regions_cache["MSK"] = None /\ files["MSK"] = NoFile

\* C26 as stated: one get_list call calls download_data at most once.
C26_Claim ==
  last.op = "get_list" => Count(last.log, <<"fetch">>) <= 1

\* C27: a call in which the request of the index page fails leaves the
\* folder without archives; and parse_region_data of a known region called
\* in January right after such a download_data starts no download, finds no
\* archive and raises AttributeError.
C27_Step ==
  IsCall
    => /\ (Has(last'.log, <<"index">>) /\ web.index # "ok") => zips' = <<>>
       /\ (/\ last.op = "download_data" /\ web.index # "ok"
           /\ last'.op = "parse_region_data" /\ last'.region \in KnownCodes
           /\ now.month = 1)
            => /\ ~Has(last'.log, <<"fetch">>)
               /\ Events(last'.log, {"open"}) = {}
               /\ last'.err = "AttributeError"
               /\ last'.out = None

C27_IndexFailureEmptiesFolder == [][C27_Step]_vars

C27_Witness ==
  /\ ncalls = 2
  /\ last.op = "parse_region_data" /\ last.region = "MSK"
  /\ now.month = 1 /\ web.index = "net_err"
  /\ zips = <<>>
  /\ last.err = "AttributeError"

\* C28: download_data changes no cache file and no memo entry, the cache
\* file of a region changes only when get_list writes it after a build,
\* and a get_list call after a download builds no region that has a memo
\* entry or a cache file.
C28_Step ==
  IsCall
    => /\ last'.op = "download_data"
            => files' = files /\ regions_cache' = regions_cache
       /\ \A r \in Regions :
            /\ files'[r] # files[r]
                 => /\ last'.op = "get_list"
                    /\ Has(last'.log, <<"write", r>>)
                    /\ files[r] = NoFile
            /\ (last.op = "download_data" /\ last'.op = "get_list"
                /\ (regions_cache[r] # None \/ files[r] # NoFile))
                 => ~Has(last'.log, <<"build", r>>)

C28_DownloadKeepsCaches == [][C28_Step]_vars

C28_Witness ==
  /\ ncalls = 2
  /\ last.op = "get_list" /\ last.req.all /\ last.err = ""
  /\ now = Date(2, 2017) /\ web = WebOk
  /\ zips = <<"A", "B">>
  /\ \A r \in Regions : files[r] # NoFile /\ builds[r] = 0 /\ reads[r] = 1
  /\ Events(last.log, {"open", "index"}) = {}

\* text of two digits
TwoDigits(t) == Len(t) = 2 /\ AllDigits(t)

\* C29 as stated: parse_u5 emits the empty text, or two digits that are an
\* hour from 0 to 24, or HH:MM of five characters with HH from 0 to 24 and
\* MM from 0 to 59, and nothing else.
C29_Claim ==
  out.fn = "parse_u5"
    => \/ out.val = <<>>
       \/ /\ TwoDigits(out.val)
          /\ IntValue(out.val) <= 24
       \/ /\ Len(out.val) = 5
          /\ out.val[3] = ":"
          /\ TwoDigits(SubSeq(out.val, 1, 2))
          /\ TwoDigits(SubSeq(out.val, 4, 5))
          /\ IntValue(SubSeq(out.val, 1, 2)) <= 24
          /\ IntValue(SubSeq(out.val, 4, 5)) <= 59

\* C30: for an integer x round1000 returns 1000 when x < 1000, else the
\* least multiple of 1000 that is at least x; the value returned is a
\* positive multiple of 1000, is at least x, and is less than x + 1000 when
\* x >= 1000.
C30_Round1000 ==
  rounded # <<>>
    => /\ num < 1000 => rounded[1] = 1000
       /\ num >= 1000
            => /\ rounded[1] - num < 1000
               /\ \A m \in 1..(MaxRound \div 1000 + 1) :
                    1000 * m >= num => rounded[1] <= 1000 * m
       /\ rounded[1] > 0
       /\ rounded[1] % 1000 = 0
       /\ rounded[1] >= num

C30_Witness ==
  /\ num = 2000
  /\ rounded = <<2000>>

====
